---- MODULE Spec2Model ----
(***************************************************************************)
(* Map groups (mapgroups/models.py): the persisted rows of MapGroup,      *)
(* MapGroupMember, FeaturedGroups and of the auth tables they use, and     *)
(* the operations of MapGroupManager and MapGroup on them.                 *)
(*                                                                         *)
(* A string is a sequence of one-character strings.  Every ORM write is    *)
(* committed when it returns (the module opens no transaction), so an      *)
(* operation that raises part-way keeps the writes made before the raise.  *)
(***************************************************************************)
EXTENDS Integers, Sequences, FiniteSets, TLC

\* ------------------------------------------------------------- bounds
MaxPermGroups == 2      \* auth Group rows ever created
MaxMemberGroups == 1    \* auth Group rows in the membership runs
MaxMembers == 2         \* MapGroupMember rows ever created
NumUsers == 2           \* saved User rows
NumRand == 2            \* distinct outcomes of get_random_string(8)
MaxNameLen == 3         \* length of the enumerated display names
MaxFeaturedGroups == 2  \* MapGroup rows in the featured-listing runs
MaxRank == 3            \* ranks given to FeaturedGroups rows

\* -------------------------------------------------- program constants
GroupNameMax == 80      \* auth Group.name max_length, "80 - 8" in the code
RandLen == 8            \* get_random_string(8)
NameMaxLength == 255    \* MapGroup.name / MapGroup.slug max_length

\* ------------------------------------------------------------ strings
Rep(c, n) == [i \in 1..n |-> c]

Min(a, b) == IF a < b THEN a ELSE b

Take(s, n) == SubSeq(s, 1, Min(n, Len(s)))

LowerChars == {"a", "b"}
UpperChars == {"A"}
SpaceChars == {" "}
Hyphen == "-"
\* "e_acute" stands for the one character U+00E9
Alphabet == LowerChars \cup UpperChars \cup SpaceChars \cup {Hyphen, "_", "!", "e_acute"}

\* unicodedata.normalize('NFKD', c).encode('ascii', 'ignore'): the ASCII base
\* of the character, "" when it has none
AsciiFold(c) == IF c = "e_acute" THEN "e" ELSE c

IsWordChar(c) == c \in LowerChars \cup UpperChars \cup {"e", "_"}

IsSepChar(c) == c = Hyphen \/ c \in SpaceChars

ToLower(c) == IF c = "A" THEN "a" ELSE c

FoldAll(s) == SelectSeq([i \in 1..Len(s) |-> AsciiFold(s[i])], LAMBDA c : c # "")

\* re.sub('[^\w\s-]', '', s)
KeepSlugChars(s) == SelectSeq(s, LAMBDA c : IsWordChar(c) \/ IsSepChar(c))

\* str.strip(): leading and trailing whitespace removed
Strip(s) ==
    LET lead == Cardinality({i \in 1..Len(s) : \A j \in 1..i : s[j] \in SpaceChars})
        trail == Cardinality({i \in 1..Len(s) : \A j \in i..Len(s) : s[j] \in SpaceChars})
    IN  IF lead = Len(s) THEN <<>> ELSE SubSeq(s, lead + 1, Len(s) - trail)

LowerAll(s) == [i \in 1..Len(s) |-> ToLower(s[i])]

\* re.sub('[-\s]+', '-', s): the first character of a run becomes the hyphen,
\* the others go
CollapseRuns(s) ==
    SelectSeq([i \in 1..Len(s) |->
                 IF ~IsSepChar(s[i]) THEN s[i]
                 ELSE IF i > 1 /\ IsSepChar(s[i - 1]) THEN "" ELSE Hyphen],
              LAMBDA c : c # "")

\* django.utils.text.slugify
Slugify(name) == CollapseRuns(LowerAll(Strip(KeepSlugChars(FoldAll(name)))))

\* the display names the operations are called with
N_AB == <<"A", " ", "b">>
N_A_B == <<"a", "-", "b">>
N_Long == Rep("a", GroupNameMax)
N_TooLong == Rep("b", NameMaxLength + 1)
Names == {N_AB, N_A_B, N_Long, N_TooLong}

\* the display names _permission_group_name is run on by itself: every name of
\* at most MaxNameLen characters, and names around the limits of 72 and 80
ShortNames == UNION {[1..k -> Alphabet] : k \in 1..MaxNameLen}
LongNames ==
    {Rep("a", n) : n \in (GroupNameMax - RandLen - 1)..(GroupNameMax - RandLen + 1)}
    \cup {[i \in 1..(2 * GroupNameMax) |-> IF i % 2 = 0 THEN " " ELSE "A"]}
DeriveNames == ShortNames \cup LongNames \cup Names

\* slugify is a function of the name alone: its values on Names are computed once
SlugTable == [n \in Names |-> Slugify(n)]
SlugOf(name) == IF name \in Names THEN SlugTable[name] ELSE Slugify(name)

\* get_random_string(8): one of NumRand outcomes
RandLetters == <<"x", "y", "z", "w">>   \* letters get_random_string may draw
RandomStrings == {Rep(RandLetters[k], RandLen) : k \in 1..NumRand}

\* as _permission_group_name would be with the slug cut at 80, not at 80 - 8
PermissionGroupNameCutAtMax(name, rnd) ==
    LET slug == SlugOf(name)
    IN  SubSeq(slug, 1, Min(GroupNameMax, Len(slug))) \o rnd

\* MapGroup._permission_group_name
PermissionGroupName(name, rnd) ==
    LET slug == SlugOf(name)
    IN  SubSeq(slug, 1, Min(GroupNameMax - RandLen, Len(slug))) \o rnd

\* -------------------------------------------------------------- state
VARIABLES
    pgName,      \* auth Group rows: id -> name (name is unique, max 80)
    sharing,     \* ids of the auth Groups enable_sharing was called on
    mapGroups,   \* MapGroup rows: id -> [name, slug, owner, permission_group, is_open, blurb]
    userGroups,  \* User.groups: pairs <<user, auth Group id>>
    members,     \* MapGroupMember rows: [id, user, map_group, is_manager]
    userActive,  \* User.is_active of every saved user
    featured,    \* FeaturedGroups rows: [id, rank, map_group]
    listing,     \* the rows the last call returned, when it was a query of a manager
    derived,     \* the last run of _permission_group_name: [name, out]
    last         \* the last call and how it ended

vars == <<pgName, sharing, mapGroups, userGroups, members, userActive,
          featured, listing, derived, last>>

Users == 1..NumUsers
Anonymous == 0          \* AnonymousUser: no row, is_anonymous() is True

NoCall == [op |-> "none", ok |-> TRUE, group |-> 0, user |-> 0, member |-> 0,
           prev |-> <<>>, step |-> "none"]

Init ==
    /\ pgName = <<>>
    /\ sharing = {}
    /\ mapGroups = <<>>
    /\ userGroups = {}
    /\ members = {}
    /\ userActive = [u \in Users |-> TRUE]
    /\ featured = {}
    /\ listing = <<>>
    /\ derived = [name |-> <<>>, out |-> <<>>]
    /\ last = NoCall

PermGroups == DOMAIN pgName
Groups == DOMAIN mapGroups

\* ------------------------------------------------- constraints of the tables
\* as the table would be with no unique constraint on the name
NameIsFreeUnchecked(n, self) == TRUE

\* auth Group.name is unique: no row other than `self` holds the name
NameIsFree(n, self) == \A p \in PermGroups \ {self} : pgName[p] # n

\* as the table would be without unique_together
MemberPairFreeUnchecked(u, g) == TRUE

\* MapGroupMember.Meta.unique_together = (('user', 'map_group'),)
MemberPairFree(u, g) == \A m \in members : ~(m.user = u /\ m.map_group = g)

\* MapGroup.name and MapGroup.slug are at most 255 characters
FitsMapGroup(name, slug) == Len(name) <= NameMaxLength /\ Len(slug) <= NameMaxLength

\* FeaturedGroups.rank is unique
RankFree(r, self) == \A f \in featured : f.id = self \/ f.rank # r

\* as the table would be with a plain foreign key to MapGroup
FeaturedGroupFreeUnchecked(g, self) == TRUE

\* FeaturedGroups.map_group is a unique foreign key
FeaturedGroupFree(g, self) == \A f \in featured : f.id = self \/ f.map_group # g

\* ------------------------------------------------------------- lookups
\* as has_member would be without the test of is_active
has_member_any_user(g, u) ==
    IF u = Anonymous THEN FALSE
    ELSE \E m \in members : m.map_group = g /\ m.user = u

\* MapGroup.has_member
has_member(g, u) ==
    IF u = Anonymous \/ ~userActive[u] THEN FALSE
    ELSE \E m \in members : m.map_group = g /\ m.user = u

None == [id |-> 0]
MultipleObjectsReturned == [id |-> -1]

\* MapGroup.get_member: QuerySet.get raises DoesNotExist on no row (caught)
\* and MultipleObjectsReturned on more than one (not caught)
get_member(g, u) ==
    IF u = Anonymous \/ ~userActive[u] THEN None
    ELSE LET rows == {m \in members : m.map_group = g /\ m.user = u}
         IN  IF rows = {} THEN None
             ELSE IF Cardinality(rows) = 1 THEN CHOOSE m \in rows : TRUE
             ELSE MultipleObjectsReturned

\* as save would be if it stored the name itself as the slug
SaveSlugUnslugified(name) == name

\* MapGroup.save: the slug is recomputed from the name on every save
SaveSlug(name) == SlugOf(name)

\* ---------------------------------------------------------- operations
CreateSteps == {"none", "pg_create", "enable_sharing", "mg_save", "groups_add", "member_save"}

\* as the owner's row would be with is_manager left at its default
OwnerMemberDefault(id, owner, g) ==
    [id |-> id, user |-> owner, map_group |-> g, is_manager |-> FALSE]

\* the member row create() builds for the owner
OwnerMember(id, owner, g) ==
    [id |-> id, user |-> owner, map_group |-> g, is_manager |-> TRUE]

\* MapGroupManager.create(name, owner, open, blurb).  `rnd` is what
\* get_random_string returns, `fault` the call the store raises in (if any).
\* done = the number of steps completed before the raise (6: all of them).
Create(name, owner, open, blurb, rnd, fault) ==
    LET pg == Cardinality(PermGroups) + 1
        g == Cardinality(Groups) + 1
        mid == Cardinality(members) + 1
        pgn == PermissionGroupName(name, rnd)
        slug == SaveSlug(name)
        done == IF owner = Anonymous THEN 0
                ELSE IF fault = "pg_create" \/ ~NameIsFree(pgn, 0) THEN 1
                ELSE IF fault = "enable_sharing" THEN 2
                ELSE IF fault = "mg_save" \/ ~FitsMapGroup(name, slug) THEN 3
                ELSE IF fault = "groups_add" THEN 4
                ELSE IF fault = "member_save" \/ ~MemberPairFree(owner, g) THEN 5
                ELSE 6
    IN  /\ pgName' = IF done > 1 THEN Append(pgName, pgn) ELSE pgName
        /\ sharing' = IF done > 2 THEN sharing \cup {pg} ELSE sharing
        /\ mapGroups' = IF done > 3
                        THEN Append(mapGroups, [name |-> name, slug |-> slug, owner |-> owner,
                                                permission_group |-> pg, is_open |-> open,
                                                blurb |-> blurb])
                        ELSE mapGroups
        /\ userGroups' = IF done > 4 THEN userGroups \cup {<<owner, pg>>} ELSE userGroups
        /\ members' = IF done > 5 THEN members \cup {OwnerMember(mid, owner, g)} ELSE members
        /\ last' = [op |-> "create", ok |-> done = 6,
                    group |-> IF done > 3 THEN g ELSE 0, user |-> owner,
                    member |-> IF done > 5 THEN mid ELSE 0,
                    prev |-> <<>>,
                    step |-> CASE done = 0 -> "owner"
                               [] done = 1 -> "pg_create"
                               [] done = 2 -> "enable_sharing"
                               [] done = 3 -> "mg_save"
                               [] done = 4 -> "groups_add"
                               [] done = 5 -> "member_save"
                               [] OTHER -> "none"]
        /\ listing' = <<>>
        /\ UNCHANGED <<userActive, featured, derived>>

RenameSteps == {"none", "mg_save", "pg_save"}

\* MapGroup.rename(new_name): save() writes name and slug, then the
\* permission group's re-derived name is saved
Rename(g, new_name, rnd, fault) ==
    LET pg == mapGroups[g].permission_group
        slug == SaveSlug(new_name)
        pgn == PermissionGroupName(new_name, rnd)
        done == IF fault = "mg_save" \/ ~FitsMapGroup(new_name, slug) THEN 0
                ELSE IF fault = "pg_save" \/ ~NameIsFree(pgn, pg) THEN 1
                ELSE 2
    IN  /\ g \in Groups
        /\ mapGroups' = IF done > 0
                        THEN [mapGroups EXCEPT ![g].name = new_name, ![g].slug = slug]
                        ELSE mapGroups
        /\ pgName' = IF done > 1 THEN [pgName EXCEPT ![pg] = pgn] ELSE pgName
        /\ last' = [op |-> "rename", ok |-> done = 2, group |-> g, user |-> 0,
                    member |-> 0, prev |-> pgName[pg],
                    step |-> CASE done = 0 -> "mg_save"
                               [] done = 1 -> "pg_save"
                               [] OTHER -> "none"]
        /\ listing' = <<>>
        /\ UNCHANGED <<sharing, userGroups, members, userActive, featured, derived>>

\* MapGroupMember(user=u, map_group=g).save(): a user joins a group
Join(u, g) ==
    LET mid == Cardinality(members) + 1
        ok == MemberPairFree(u, g)
    IN  /\ g \in Groups
        /\ members' = IF ok
                      THEN members \cup {[id |-> mid, user |-> u, map_group |-> g,
                                          is_manager |-> FALSE]}
                      ELSE members
        /\ last' = [op |-> "join", ok |-> ok, group |-> g, user |-> u,
                    member |-> IF ok THEN mid ELSE 0, prev |-> <<>>,
                    step |-> IF ok THEN "none" ELSE "member_save"]
        /\ listing' = <<>>
        /\ UNCHANGED <<pgName, sharing, mapGroups, userGroups, userActive, featured, derived>>

\* User.is_active is written by the identity store
SetActive(u, b) ==
    /\ userActive[u] # b
    /\ userActive' = [userActive EXCEPT ![u] = b]
    /\ last' = [NoCall EXCEPT !.op = "set_active", !.user = u]
    /\ listing' = <<>>
    /\ UNCHANGED <<pgName, sharing, mapGroups, userGroups, members, featured, derived>>

\* mapgroup.featuredgroups_set.create(rank=r)
AddFeatured(g, r) ==
    LET fid == Cardinality(featured) + 1
        ok == RankFree(r, 0) /\ FeaturedGroupFree(g, 0)
    IN  /\ g \in Groups
        /\ featured' = IF ok THEN featured \cup {[id |-> fid, rank |-> r, map_group |-> g]}
                       ELSE featured
        /\ last' = [NoCall EXCEPT !.op = "add_featured", !.ok = ok, !.group = g]
        /\ listing' = <<>>
        /\ UNCHANGED <<pgName, sharing, mapGroups, userGroups, members, userActive, derived>>

\* a FeaturedGroups row's rank is written and the row saved
SetRank(f, r) ==
    LET ok == RankFree(r, f.id)
    IN  /\ f \in featured
        /\ f.rank # r
        /\ featured' = IF ok THEN (featured \ {f}) \cup {[f EXCEPT !.rank = r]} ELSE featured
        /\ last' = [NoCall EXCEPT !.op = "set_rank", !.ok = ok, !.group = f.map_group]
        /\ listing' = <<>>
        /\ UNCHANGED <<pgName, sharing, mapGroups, userGroups, members, userActive, derived>>

\* the orders a query with no ORDER BY may return the rows S in
Orderings(S) == {o \in [1..Cardinality(S) -> S] : \A i, j \in DOMAIN o : i # j => o[i] # o[j]}

\* MapGroupFeaturedManager.get_queryset: filter(featuredgroups__isnull=False)
\* joins MapGroup to FeaturedGroups, one row per FeaturedGroups row; no order_by
FeaturedRows == {f \in featured : f.map_group \in Groups}

QueryFeatured ==
    /\ \E o \in Orderings(FeaturedRows) :
           listing' = [i \in DOMAIN o |-> o[i].map_group]
    /\ last' = [NoCall EXCEPT !.op = "featured"]
    /\ UNCHANGED <<pgName, sharing, mapGroups, userGroups, members, userActive,
                   featured, derived>>

\* MapGroupNonFeaturedManager.get_queryset: filter(featuredgroups__isnull=True)
NotFeaturedRows == {g \in Groups : \A f \in featured : f.map_group # g}

QueryNotFeatured ==
    /\ \E o \in Orderings(NotFeaturedRows) : listing' = o
    /\ last' = [NoCall EXCEPT !.op = "not_featured"]
    /\ UNCHANGED <<pgName, sharing, mapGroups, userGroups, members, userActive,
                   featured, derived>>

\* one run of MapGroup._permission_group_name on a group named derived.name
Derive(rnd) ==
    /\ last.op = "none"
    /\ derived' = [derived EXCEPT !.out = PermissionGroupName(derived.name, rnd)]
    /\ last' = [NoCall EXCEPT !.op = "derive"]
    /\ UNCHANGED <<pgName, sharing, mapGroups, userGroups, members, userActive,
                   featured, listing>>

\* ------------------------------------------------------ specification
Blurbs == {<<>>}

\* creating groups
NextCreate ==
    \E name \in Names, owner \in Users \cup {Anonymous}, open \in BOOLEAN,
       blurb \in Blurbs, rnd \in RandomStrings, fault \in CreateSteps :
         /\ Cardinality(PermGroups) < MaxPermGroups
         /\ Create(name, owner, open, blurb, rnd, fault)

SpecCreate == Init /\ [][NextCreate]_vars

\* creating and renaming groups
RenameNames == {N_AB, N_Long}

Next ==
    \/ \E name \in RenameNames, rnd \in RandomStrings, fault \in {"none", "mg_save"} :
            /\ Cardinality(PermGroups) < MaxPermGroups
            /\ Create(name, 1, FALSE, <<>>, rnd, fault)
    \/ \E g \in Groups, name \in RenameNames, rnd \in RandomStrings, fault \in RenameSteps :
            Rename(g, name, rnd, fault)

Spec == Init /\ [][Next]_vars

\* groups, the users who join them and the users the identity store switches off
NextMembers ==
    \/ \E owner \in Users, rnd \in RandomStrings, fault \in {"none", "member_save"} :
            /\ Cardinality(PermGroups) < MaxMemberGroups
            /\ Cardinality(members) < MaxMembers
            /\ Create(N_AB, owner, FALSE, <<>>, rnd, fault)
    \/ \E u \in Users, g \in Groups :
            /\ Cardinality(members) < MaxMembers
            /\ Join(u, g)
    \/ \E u \in Users, b \in BOOLEAN : SetActive(u, b)

SpecMembers == Init /\ [][NextMembers]_vars

\* groups and their featured ranks
NextFeatured ==
    \/ \E rnd \in RandomStrings :
            /\ Cardinality(Groups) < MaxFeaturedGroups
            /\ Create(N_AB, 1, FALSE, <<>>, rnd, "none")
    \/ \E g \in Groups, r \in 1..MaxRank : AddFeatured(g, r)
    \/ \E f \in featured, r \in 1..MaxRank : SetRank(f, r)
    \/ QueryFeatured
    \/ QueryNotFeatured

SpecFeatured == Init /\ [][NextFeatured]_vars

\* the permission-group name of one display name
InitDerive ==
    /\ pgName = <<>>
    /\ sharing = {}
    /\ mapGroups = <<>>
    /\ userGroups = {}
    /\ members = {}
    /\ userActive = [u \in Users |-> TRUE]
    /\ featured = {}
    /\ listing = <<>>
    /\ derived \in {[name |-> n, out |-> <<>>] : n \in DeriveNames}
    /\ last = NoCall

NextDerive == \E rnd \in RandomStrings : Derive(rnd)

SpecDerive == InitDerive /\ [][NextDerive]_vars

\* ------------------------------------------------------------- claims
PgOf(g) == mapGroups[g].permission_group
MemberRows(u, g) == {m \in members : m.user = u /\ m.map_group = g}
\* a permission-group name without its last 8 characters, and those 8
NamePrefix(n) == SubSeq(n, 1, Len(n) - RandLen)
NameSuffix(n) == SubSeq(n, Len(n) - RandLen + 1, Len(n))

\* C1: create leaves no partial state: every permission group is referenced
\* by a Group, and every Group has its owner in its permission group and a
\* Membership of its owner; a failed create leaves nothing behind.
C1_NoPartialState ==
    /\ \A p \in PermGroups : \E g \in Groups : PgOf(g) = p
    /\ \A p \in sharing : \E g \in Groups : PgOf(g) = p
    /\ \A g \in Groups :
          /\ <<mapGroups[g].owner, PgOf(g)>> \in userGroups
          /\ MemberRows(mapGroups[g].owner, g) # {}

\* C2 as stated: after a successful create, has_member(group, owner) is true
\* for every owner, and the returned Membership is the owner's, a manager's.
C2_OwnerIsMember ==
    (last.op = "create" /\ last.ok) =>
        /\ has_member(last.group, last.user)
        /\ \E m \in members : /\ m.id = last.member
                              /\ m.user = last.user
                              /\ m.map_group = last.group
                              /\ m.is_manager

\* C2 amended: after a successful create the returned Membership is the
\* owner's in the new group with is_manager true, get_member returns it and
\* has_member is true when the owner is active; for an inactive owner
\* has_member is false although the Membership exists.
C2_OwnerIsMemberWhenActive ==
    (last.op = "create" /\ last.ok) =>
        /\ \E m \in members : /\ m.id = last.member
                              /\ m.user = last.user
                              /\ m.map_group = last.group
                              /\ m.is_manager
                              /\ userActive[last.user] => get_member(last.group, last.user) = m
        /\ has_member(last.group, last.user) <=> userActive[last.user]

C2_Witness ==
    /\ last.op = "create" /\ last.ok
    /\ userActive[last.user]
    /\ has_member(last.group, last.user)

\* C3: rename is atomic: no state holds a group whose slug is the new one
\* while its permission group's name is still derived from the old one.
C3_RenameAtomic ==
    \A g \in Groups :
        NamePrefix(pgName[PgOf(g)]) = Take(mapGroups[g].slug, GroupNameMax - RandLen)

\* C4: no two Groups reference the same permission group, no two permission
\* groups have the same name, and the permission group of a Group that
\* create returns did not exist before the call.
C4_UniquePermissionGroups ==
    /\ [](/\ \A g, h \in Groups : g # h =>
                /\ PgOf(g) # PgOf(h)
                /\ pgName[PgOf(g)] # pgName[PgOf(h)]
          /\ \A p, q \in PermGroups : p # q => pgName[p] # pgName[q])
    /\ [][(last'.op = "create" /\ last'.ok) =>
            mapGroups'[last'.group].permission_group \notin DOMAIN pgName]_vars

C4_Witness ==
    /\ Cardinality(Groups) = 2
    /\ last.op = "rename" /\ last.ok
    /\ pgName[PgOf(last.group)] # last.prev

C6_Lookup ==
    \A g \in Groups, u \in Users \cup {Anonymous} :
        IF u = Anonymous \/ ~userActive[u]
        THEN ~has_member(g, u) /\ get_member(g, u) = None
        ELSE /\ has_member(g, u) <=> MemberRows(u, g) # {}
             /\ get_member(g, u) # MultipleObjectsReturned
             /\ IF MemberRows(u, g) = {} THEN get_member(g, u) = None
                ELSE get_member(g, u) \in MemberRows(u, g)

C6_Witness ==
    \E g \in Groups, u \in Users :
        /\ ~userActive[u] /\ MemberRows(u, g) # {}
        /\ \E v \in Users : userActive[v] /\ has_member(g, v)

\* C7 as stated: after a successful rename the slug is the slugified new name
\* and the permission group's name differs from the one it had before.
C7_RenamedDistinct ==
    (last.op = "rename" /\ last.ok) =>
        /\ mapGroups[last.group].slug = Slugify(mapGroups[last.group].name)
        /\ pgName[PgOf(last.group)] # last.prev

\* C7 amended: after a successful rename the slug is the slugified new name
\* and the permission group's name is the slug cut to 72 characters plus a
\* newly drawn 8-character suffix, held by no other permission group; it
\* differs from the name held before unless the cut slug is the same and the
\* draw repeats the old suffix.
C7_RenamedRederived ==
    (last.op = "rename" /\ last.ok) =>
        LET slug == Slugify(mapGroups[last.group].name)
            new == pgName[PgOf(last.group)]
        IN  /\ mapGroups[last.group].slug = slug
            /\ NamePrefix(new) = Take(slug, 72)
            /\ NameSuffix(new) \in RandomStrings
            /\ \A p \in PermGroups \ {PgOf(last.group)} : pgName[p] # new
            /\ (new = last.prev) =>
                   /\ NamePrefix(last.prev) = Take(slug, 72)
                   /\ NameSuffix(last.prev) = NameSuffix(new)

C7_Witness ==
    /\ last.op = "rename" /\ last.ok
    /\ pgName[PgOf(last.group)] # last.prev
    /\ NamePrefix(pgName[PgOf(last.group)]) # NamePrefix(last.prev)

\* the rank of a featured group
RankOf(g) == (CHOOSE f \in featured : f.map_group = g).rank

\* C8: the featured listing is in ascending order of rank.
C8_FeaturedByRank ==
    last.op = "featured" =>
        \A i, j \in DOMAIN listing : i < j => RankOf(listing[i]) < RankOf(listing[j])

\* C9: the two views partition the groups: a group with no FeaturedGroups row
\* is never in the featured listing and always in the not-featured one, a
\* group with one is in the featured listing exactly once and not in the
\* other.
C9_Partition ==
    LET count(g) == Cardinality({i \in DOMAIN listing : listing[i] = g})
        ranked(g) == \E f \in featured : f.map_group = g
    IN  /\ last.op = "featured" =>
              \A g \in Groups : count(g) = IF ranked(g) THEN 1 ELSE 0
        /\ last.op = "not_featured" =>
              \A g \in Groups : count(g) = IF ranked(g) THEN 0 ELSE 1
        /\ \A g \in Groups :
              /\ (g \in NotFeaturedRows) <=> ~ranked(g)
              /\ Cardinality({f \in FeaturedRows : f.map_group = g})
                    = IF ranked(g) THEN 1 ELSE 0

C9_Witness ==
    /\ last.op = "featured"
    /\ Len(listing) = 1
    /\ Cardinality(Groups) = 2
    /\ last.ok

\* C10: there is at most one Membership per (user, group); creating a second
\* one fails and leaves the Memberships as they were.
C10_OneMembershipPerPair ==
    /\ [](\A m, n \in members : (m.user = n.user /\ m.map_group = n.map_group) => m = n)
    /\ [][(last'.op = "join" /\ ~last'.ok) =>
            /\ members' = members
            /\ MemberRows(last'.user, last'.group) # {}]_vars
    /\ [][(last'.op = "join" /\ last'.ok) =>
            /\ MemberRows(last'.user, last'.group) = {}
            /\ Cardinality(members') = Cardinality(members) + 1]_vars

C10_Witness ==
    /\ last.op = "join" /\ ~last.ok
    /\ Cardinality(MemberRows(last.user, last.group)) = 1

====
